---- MODULE Spec2Model ----
(***************************************************************************)
(* Shape-level model of Tutorial 5 (Adversarial Autoencoder):               *)
(* the generator and discriminator constructors, the generator's            *)
(* sample/forward, the two loss classes and their train_ops.                *)
(* A tensor is modelled by its shape (a sequence of dimension sizes) and    *)
(* the name of the expression that produced it; a layer by its kind and     *)
(* hyper-parameters.  Optimizer state is a step counter, a model's weights  *)
(* a version number that every step() on its parameters advances.           *)
(***************************************************************************)
EXTENDS Integers, Sequences, FiniteSets, TLC

\* generator, discriminator : the two models the Trainer instantiates from
\*                            `network` (None before that)
\* training : the generator's nn.Module flag self.training, read by forward
\* weights  : per model, the version of its parameters (one more per update)
\* grads    : per model, whether its parameters hold an accumulated gradient
\* steps    : per optimizer, the number of step() calls made on it
\* call     : the last call made, its argument and what it did
VARIABLES generator, discriminator, training, weights, grads, steps, call

vars == <<generator, discriminator, training, weights, grads, steps, call>>

(* ------------------------------ bounds --------------------------------- *)

\* input_size ranges over the powers of two 2^4 .. 2^MaxExp
MaxExp == 6

\* input_dims of the discriminator ranges over 32 .. MaxDims, and 128
MaxDims == 40

\* batches hold 2 .. MaxBatch samples
MaxBatch == 3

\* at most MaxSteps step() calls per optimizer
MaxSteps == 2

(* --------------------------- configuration ----------------------------- *)

\* default of the step_channels parameter of the generator
step_channels == 16

\* the dictionary handed to the Trainer
network ==
  [generator |-> [encoding_dims |-> 128, input_size |-> 32, input_channels |-> 1],
   discriminator |-> [input_dims |-> 128]]

RECURSIVE Pow2(_)
Pow2(e) == IF e = 0 THEN 1 ELSE 2 * Pow2(e - 1)

\* the documented input-size convention: a power of 2, at least 16
InputSizes == {Pow2(e) : e \in 4..MaxExp}

GeneratorArgs ==
  [encoding_dims : {32, network.generator.encoding_dims},
   input_size : InputSizes,
   input_channels : {network.generator.input_channels, step_channels}]

DiscriminatorArgs ==
  [input_dims : (32..MaxDims) \cup {network.discriminator.input_dims}]

BatchSizes == 2..MaxBatch

None == [kind |-> "None"]

(* ------------------------------- layers -------------------------------- *)

\* nn.Linear(in, out), optionally followed by nn.BatchNorm1d(out)
Linear(i, o, bn) ==
  [kind |-> "Linear", in |-> i, out |-> o, k |-> 0, s |-> 0, p |-> 0, op |-> 0,
   bn |-> bn]

\* nn.Conv2d(in, out, k, s, p), optionally followed by nn.BatchNorm2d(out)
Conv2d(i, o, k, s, p, bn) ==
  [kind |-> "Conv2d", in |-> i, out |-> o, k |-> k, s |-> s, p |-> p, op |-> 0,
   bn |-> bn]

\* nn.ConvTranspose2d(in, out, k, s, p, op), optionally followed by BatchNorm2d
ConvTranspose2d(i, o, k, s, p, op, bn) ==
  [kind |-> "ConvTranspose2d", in |-> i, out |-> o, k |-> k, s |-> s, p |-> p,
   op |-> op, bn |-> bn]

(* ----------------------- generator constructor ------------------------- *)

\* while size > 1: encoder.append(Conv2d(channels, channels * 4, 5, 4, 2) + BN)
RECURSIVE EncoderLoop(_, _, _)
EncoderLoop(encoder, size, channels) ==
  IF size > 1
  THEN EncoderLoop(Append(encoder, Conv2d(channels, channels * 4, 5, 4, 2, TRUE)),
                   size \div 4, channels * 4)
  ELSE [layers |-> encoder, channels |-> channels]

\* faulty variant: the decoder loop runs while size < input_size
RECURSIVE DecoderLoopFull(_, _, _, _)
DecoderLoopFull(decoder, size, channels, input_size) ==
  IF size < input_size
  THEN DecoderLoopFull(
         Append(decoder, ConvTranspose2d(channels, channels * 4, 5, 4, 2, 3, TRUE)),
         size * 4, channels * 4, input_size)
  ELSE [layers |-> decoder, channels |-> channels]

\* while size < input_size // 2:
\*     decoder.append(ConvTranspose2d(channels, channels * 4, 5, 4, 2, 3) + BN)
RECURSIVE DecoderLoop(_, _, _, _)
DecoderLoop(decoder, size, channels, input_size) ==
  IF size < input_size \div 2
  THEN DecoderLoop(
         Append(decoder, ConvTranspose2d(channels, channels * 4, 5, 4, 2, 3, TRUE)),
         size * 4, channels * 4, input_size)
  ELSE [layers |-> decoder, channels |-> channels]

\* AdversarialAutoencoderGenerator.__init__
NewGenerator(args) ==
  LET enc == EncoderLoop(
               <<Conv2d(args.input_channels, step_channels, 5, 2, 2, FALSE)>>,
               args.input_size \div 2, step_channels)
      dec == DecoderLoop(<<>>, 1, step_channels, args.input_size)
  IN [kind |-> "Generator",
      encoding_dims |-> args.encoding_dims,
      input_size |-> args.input_size,
      input_channels |-> args.input_channels,
      encoder |-> enc.layers,
      encoder_fc |-> Linear(enc.channels, args.encoding_dims, FALSE),
      decoder_fc |-> Linear(args.encoding_dims, step_channels, FALSE),
      decoder |-> Append(dec.layers,
                         ConvTranspose2d(dec.channels, args.input_channels,
                                         5, 2, 2, 1, FALSE))]

(* --------------------- discriminator constructor ----------------------- *)

\* faulty variant: the halving stops at 32
RECURSIVE DiscriminatorLoop32(_, _)
DiscriminatorLoop32(model, size) ==
  IF size > 32
  THEN DiscriminatorLoop32(Append(model, Linear(size, size \div 2, TRUE)),
                           size \div 2)
  ELSE [layers |-> model, size |-> size]

\* while size > 16: model.append(Linear(size, size // 2) + BatchNorm1d)
RECURSIVE DiscriminatorLoop(_, _)
DiscriminatorLoop(model, size) ==
  IF size > 16
  THEN DiscriminatorLoop(Append(model, Linear(size, size \div 2, TRUE)),
                         size \div 2)
  ELSE [layers |-> model, size |-> size]

\* AdversarialAutoencoderDiscriminator.__init__
NewDiscriminator(args) ==
  LET body == DiscriminatorLoop(
                <<Linear(args.input_dims, args.input_dims \div 2, FALSE)>>,
                args.input_dims \div 2)
  IN [kind |-> "Discriminator",
      input_dims |-> args.input_dims,
      model |-> Append(body.layers, Linear(body.size, 1, FALSE))]

(* ------------------------------ tensors -------------------------------- *)

\* a tensor: its shape and the chain of calls that produced it, outermost first
Tensor(shape, src) == [ok |-> TRUE, shape |-> shape, src |-> src]

\* the value of an expression whose evaluation raised
Raise == [ok |-> FALSE, shape |-> <<>>, src |-> <<>>]

RECURSIVE Numel(_)
Numel(shape) == IF shape = <<>> THEN 1 ELSE Head(shape) * Numel(Tail(shape))

\* output size of Conv2d along one spatial dimension
Conv2dOut(l, n) == (n + 2 * l.p - l.k) \div l.s + 1

\* output size of ConvTranspose2d along one spatial dimension
ConvTranspose2dOut(l, n) == (n - 1) * l.s - 2 * l.p + l.k + l.op

\* calling one layer (with its BatchNorm and nonlinearity, which keep the shape)
ApplyLayer(l, t) ==
  IF ~t.ok THEN Raise
  ELSE LET n == Len(t.shape) IN
    CASE l.kind = "Linear" ->
           IF n >= 1 /\ t.shape[n] = l.in
           THEN Tensor([t.shape EXCEPT ![n] = l.out], t.src)
           ELSE Raise
      [] l.kind = "Conv2d" ->
           IF n = 4 /\ t.shape[2] = l.in
              /\ t.shape[3] + 2 * l.p >= l.k /\ t.shape[4] + 2 * l.p >= l.k
           THEN Tensor(<<t.shape[1], l.out, Conv2dOut(l, t.shape[3]),
                         Conv2dOut(l, t.shape[4])>>, t.src)
           ELSE Raise
      [] l.kind = "ConvTranspose2d" ->
           IF n = 4 /\ t.shape[2] = l.in
           THEN Tensor(<<t.shape[1], l.out, ConvTranspose2dOut(l, t.shape[3]),
                         ConvTranspose2dOut(l, t.shape[4])>>, t.src)
           ELSE Raise

\* calling an nn.Sequential
RECURSIVE ApplySeq(_, _)
ApplySeq(layers, t) ==
  IF layers = <<>> THEN t ELSE ApplySeq(Tail(layers), ApplyLayer(Head(layers), t))

\* a tensor relabelled as the result of the call chain `names` on it
From(names, t) == IF t.ok THEN Tensor(t.shape, names \o t.src) ELSE Raise

(* ------------------------- generator: sample, forward ------------------ *)

\* AdversarialAutoencoderGenerator.sample
sample(gen, noise) ==
  LET fc == ApplyLayer(gen.decoder_fc, noise) IN
  IF ~fc.ok \/ Len(fc.shape) < 2
  THEN [t |-> Raise, ran |-> {"decoder_fc"}]
  ELSE LET c == fc.shape[2]
           viewed == Tensor(<<Numel(fc.shape) \div c, c, 1, 1>>, fc.src)
       IN [t |-> From(<<"decoder", "decoder_fc">>, ApplySeq(gen.decoder, viewed)),
           ran |-> {"decoder_fc", "decoder"}]

ForwardRaise(ran) ==
  [kind |-> "raise", out |-> Raise, encoding |-> Raise, ran |-> ran]

\* faulty variant: forward never reads self.training and always decodes its input
forwardAlwaysSample(gen, train, x) ==
  LET s == sample(gen, x) IN
  IF s.t.ok
  THEN [kind |-> "tensor", out |-> s.t, encoding |-> Raise, ran |-> s.ran]
  ELSE ForwardRaise(s.ran)

\* AdversarialAutoencoderGenerator.forward
forward(gen, train, x) ==
  IF train
  THEN LET e == ApplySeq(gen.encoder, x) IN
       IF ~e.ok THEN ForwardRaise({"encoder"})
       ELSE LET chw == e.shape[2] * e.shape[3] * e.shape[4]
                flat == Tensor(<<Numel(e.shape) \div chw, chw>>, e.src)
                encoding == From(<<"encoder_fc", "encoder">>,
                                 ApplyLayer(gen.encoder_fc, flat))
            IN IF ~encoding.ok THEN ForwardRaise({"encoder", "encoder_fc"})
               ELSE LET s == sample(gen, encoding) IN
                    IF s.t.ok
                    THEN [kind |-> "pair", out |-> s.t, encoding |-> encoding,
                          ran |-> {"encoder", "encoder_fc"} \cup s.ran]
                    ELSE ForwardRaise({"encoder", "encoder_fc"} \cup s.ran)
  ELSE LET s == sample(gen, x) IN
       IF s.t.ok
       THEN [kind |-> "tensor", out |-> s.t, encoding |-> Raise, ran |-> s.ran]
       ELSE ForwardRaise(s.ran)

\* AdversarialAutoencoderDiscriminator.forward
discriminator_forward(disc, x) == From(<<"discriminator">>, ApplySeq(disc.model, x))

(* -------------------------------- losses -------------------------------- *)

\* whether two shapes broadcast against each other (F.mse_loss raises otherwise)
RECURSIVE Broadcastable(_, _)
Broadcastable(a, b) ==
  IF a = <<>> \/ b = <<>> THEN TRUE
  ELSE LET x == a[Len(a)]
           y == b[Len(b)]
       IN /\ (x = y \/ x = 1 \/ y = 1)
          /\ Broadcastable(SubSeq(a, 1, Len(a) - 1), SubSeq(b, 1, Len(b) - 1))

\* one summand of a loss: weight (in thousandths) * fn(input, target)
Term(w, fn, input, target) ==
  [weight |-> w, fn |-> fn, input |-> input, target |-> target]

LossRaise == [ok |-> FALSE, terms |-> <<>>]

\* faulty variant: the two terms of the generator loss are weighted equally
GeneratorLoss_forward_equal(real_inputs, gen_inputs, dgz) ==
  IF ~Broadcastable(gen_inputs.shape, real_inputs.shape) THEN LossRaise
  ELSE [ok |-> TRUE,
        terms |-> <<Term(500, "mse_loss", gen_inputs.src, real_inputs.src),
                    Term(500, "binary_cross_entropy_with_logits", dgz.src,
                         <<"ones_like">>)>>]

\* AdversarialAutoencoderGeneratorLoss.forward
GeneratorLoss_forward(real_inputs, gen_inputs, dgz) ==
  IF ~Broadcastable(gen_inputs.shape, real_inputs.shape) THEN LossRaise
  ELSE [ok |-> TRUE,
        terms |-> <<Term(999, "mse_loss", gen_inputs.src, real_inputs.src),
                    Term(1, "binary_cross_entropy_with_logits", dgz.src,
                         <<"ones_like">>)>>]

\* faulty variant: the discriminator loss with the two targets exchanged
DiscriminatorLoss_forward_swapped(dx, dgz) ==
  IF dgz.shape # dx.shape THEN LossRaise
  ELSE [ok |-> TRUE,
        terms |-> <<Term(500, "binary_cross_entropy_with_logits", dx.src,
                         <<"zeros_like">>),
                    Term(500, "binary_cross_entropy_with_logits", dgz.src,
                         <<"ones_like">>)>>]

\* AdversarialAutoencoderDiscriminatorLoss.forward
DiscriminatorLoss_forward(dx, dgz) ==
  IF dgz.shape # dx.shape THEN LossRaise
  ELSE [ok |-> TRUE,
        terms |-> <<Term(500, "binary_cross_entropy_with_logits", dx.src,
                         <<"ones_like">>),
                    Term(500, "binary_cross_entropy_with_logits", dgz.src,
                         <<"zeros_like">>)>>]

(* ------------------------------- train_ops ------------------------------ *)

\* the two-value unpacking  a, b = generator(real_inputs)
Unpack(r) ==
  CASE r.kind = "pair" -> [ok |-> TRUE, first |-> r.out, second |-> r.encoding]
    [] r.kind = "tensor" ->
         IF Len(r.out.shape) >= 1 /\ r.out.shape[1] = 2
         THEN [ok |-> TRUE, first |-> Tensor(Tail(r.out.shape), r.out.src),
               second |-> Tensor(Tail(r.out.shape), r.out.src)]
         ELSE [ok |-> FALSE, first |-> Raise, second |-> Raise]
    [] OTHER -> [ok |-> FALSE, first |-> Raise, second |-> Raise]

\* what one train_ops call did: whether it returned, whether it got past the
\* unpacking, zero_grad() and backward(), the terms of its loss, and the
\* optimizers it called step() on, in order
Outcome(status, fwd, unpacked, zero_grad, backward, terms, stepped) ==
  [status |-> status, fwd |-> fwd, unpacked |-> unpacked, zero_grad |-> zero_grad,
   backward |-> backward, terms |-> terms, stepped |-> stepped]

\* AdversarialAutoencoderGeneratorLoss.train_ops
GeneratorLoss_train_ops(gen, disc, train, optimizer_generator, real_inputs) ==
  LET r == forward(gen, train, real_inputs)
      u == Unpack(r)
  IN IF ~u.ok THEN Outcome("raised", r, FALSE, FALSE, FALSE, <<>>, <<>>)
     ELSE LET dgz == discriminator_forward(disc, u.second) IN
       IF ~dgz.ok THEN Outcome("raised", r, TRUE, TRUE, FALSE, <<>>, <<>>)
       ELSE LET loss == GeneratorLoss_forward(real_inputs, u.first, dgz) IN
         IF ~loss.ok THEN Outcome("raised", r, TRUE, TRUE, FALSE, <<>>, <<>>)
         ELSE Outcome("returned", r, TRUE, TRUE, TRUE, loss.terms,
                      <<optimizer_generator>>)

\* torch.randn(real_inputs.size(0), generator.encoding_dims)
randn(rows, cols) == Tensor(<<rows, cols>>, <<"randn">>)

\* faulty variant: the discriminator's train_ops also steps the generator's optimizer
DiscriminatorLoss_train_ops_both(gen, disc, train, optimizer_discriminator, real_inputs) ==
  LET r == forward(gen, train, real_inputs)
      u == Unpack(r)
  IN IF ~u.ok THEN Outcome("raised", r, FALSE, FALSE, FALSE, <<>>, <<>>)
     ELSE LET noise == randn(real_inputs.shape[1], gen.encoding_dims)
              dx == discriminator_forward(disc, noise)
              dgz == discriminator_forward(disc, u.second)
          IN IF ~dx.ok \/ ~dgz.ok
             THEN Outcome("raised", r, TRUE, TRUE, FALSE, <<>>, <<>>)
             ELSE LET loss == DiscriminatorLoss_forward(dx, dgz) IN
               IF ~loss.ok THEN Outcome("raised", r, TRUE, TRUE, FALSE, <<>>, <<>>)
               ELSE Outcome("returned", r, TRUE, TRUE, TRUE, loss.terms,
                            <<optimizer_discriminator, "optimizer_generator">>)

\* AdversarialAutoencoderDiscriminatorLoss.train_ops
DiscriminatorLoss_train_ops(gen, disc, train, optimizer_discriminator, real_inputs) ==
  LET r == forward(gen, train, real_inputs)
      u == Unpack(r)
  IN IF ~u.ok THEN Outcome("raised", r, FALSE, FALSE, FALSE, <<>>, <<>>)
     ELSE LET noise == randn(real_inputs.shape[1], gen.encoding_dims)
              dx == discriminator_forward(disc, noise)
              dgz == discriminator_forward(disc, u.second)
          IN IF ~dx.ok \/ ~dgz.ok
             THEN Outcome("raised", r, TRUE, TRUE, FALSE, <<>>, <<>>)
             ELSE LET loss == DiscriminatorLoss_forward(dx, dgz) IN
               IF ~loss.ok THEN Outcome("raised", r, TRUE, TRUE, FALSE, <<>>, <<>>)
               ELSE Outcome("returned", r, TRUE, TRUE, TRUE, loss.terms,
                            <<optimizer_discriminator>>)

(* ------------------------------ the program ----------------------------- *)

\* the parameters each optimizer holds (the Trainer builds one optimizer per model)
optimizers ==
  [optimizer_generator |-> {"generator"}, optimizer_discriminator |-> {"discriminator"}]

Models == {"generator", "discriminator"}

RECURSIVE Count(_, _)
Count(x, seq) ==
  IF seq = <<>> THEN 0 ELSE (IF Head(seq) = x THEN 1 ELSE 0) + Count(x, Tail(seq))

\* a record of the last call made: the operation, its argument and what it did
Call(op, x, o) == [op |-> op, x |-> x, o |-> o]

NoOutcome == Outcome("returned", ForwardRaise({}), FALSE, FALSE, FALSE, <<>>, <<>>)

\* a batch of images / a batch of latent vectors for generator `gen`
Images(gen, b) ==
  Tensor(<<b, gen.input_channels, gen.input_size, gen.input_size>>, <<"real_inputs">>)

Latents(gen, b) == Tensor(<<b, gen.encoding_dims>>, <<"noise">>)

\* optimizer.zero_grad(): the gradients of the optimizer's parameters are cleared
ZeroGrad(g, optimizer) == [m \in Models |-> g[m] /\ m \notin optimizers[optimizer]]

\* loss.backward(): every parameter the loss depends on accumulates a gradient
Backward(g) == [m \in Models |-> TRUE]

\* the effect of a train_ops call with outcome o on gradients, weights and counters
Effect(o, optimizer) ==
  LET g1 == IF o.zero_grad THEN ZeroGrad(grads, optimizer) ELSE grads
      g2 == IF o.backward THEN Backward(g1) ELSE g1
      moved(m) == {n \in DOMAIN optimizers : m \in optimizers[n] /\ g2[m]}
      sum(m) == Count("optimizer_generator", o.stepped)
                  * Cardinality(moved(m) \cap {"optimizer_generator"})
                + Count("optimizer_discriminator", o.stepped)
                  * Cardinality(moved(m) \cap {"optimizer_discriminator"})
  IN /\ grads' = g2
     /\ weights' = [m \in Models |-> weights[m] + sum(m)]
     /\ steps' = [n \in DOMAIN optimizers |-> steps[n] + Count(n, o.stepped)]

Init ==
  /\ generator = None
  /\ discriminator = None
  /\ training = TRUE
  /\ weights = [m \in Models |-> 0]
  /\ grads = [m \in Models |-> FALSE]
  /\ steps = [n \in DOMAIN optimizers |-> 0]
  /\ call = Call("none", Raise, NoOutcome)

\* the Trainer instantiates network["generator"]["name"](**args)
Generator_init ==
  /\ generator = None
  /\ \E args \in GeneratorArgs :
       /\ generator' = NewGenerator(args)
       /\ call' = Call("Generator.__init__", Raise, NoOutcome)
  /\ UNCHANGED <<discriminator, training, weights, grads, steps>>

\* the Trainer instantiates network["discriminator"]["name"](**args)
Discriminator_init ==
  /\ discriminator = None
  /\ \E args \in DiscriminatorArgs :
       /\ discriminator' = NewDiscriminator(args)
       /\ call' = Call("Discriminator.__init__", Raise, NoOutcome)
  /\ UNCHANGED <<generator, training, weights, grads, steps>>

\* generator.train() / generator.eval(): sets the flag forward reads
Generator_train ==
  /\ generator # None
  /\ \E mode \in BOOLEAN :
       /\ training' = mode
       /\ call' = Call(IF mode THEN "Generator.train" ELSE "Generator.eval",
                       Raise, NoOutcome)
  /\ UNCHANGED <<generator, discriminator, weights, grads, steps>>

\* generator(x), on a batch of images or of latent vectors
Generator_forward ==
  /\ generator # None
  /\ \E b \in BatchSizes :
       \E x \in {Images(generator, b), Latents(generator, b)} :
         call' = Call("Generator.forward", x,
                      [NoOutcome EXCEPT !.fwd = forward(generator, training, x)])
  /\ UNCHANGED <<generator, discriminator, training, weights, grads, steps>>

\* generator.sample(noise)
Generator_sample ==
  /\ generator # None
  /\ \E b \in BatchSizes :
       LET x == Latents(generator, b)
           s == sample(generator, x)
       IN call' = Call("Generator.sample", x,
                       [NoOutcome EXCEPT !.fwd =
                          IF s.t.ok
                          THEN [kind |-> "tensor", out |-> s.t, encoding |-> Raise,
                                ran |-> s.ran]
                          ELSE ForwardRaise(s.ran)])
  /\ UNCHANGED <<generator, discriminator, training, weights, grads, steps>>

\* one call of AdversarialAutoencoderGeneratorLoss.train_ops by the Trainer
GeneratorLoss_call ==
  /\ generator # None /\ discriminator # None
  /\ steps["optimizer_generator"] < MaxSteps
  /\ \E b \in BatchSizes :
       LET x == Images(generator, b)
           o == GeneratorLoss_train_ops(generator, discriminator, training,
                                        "optimizer_generator", x)
       IN /\ call' = Call("GeneratorLoss.train_ops", x, o)
          /\ Effect(o, "optimizer_generator")
  /\ UNCHANGED <<generator, discriminator, training>>

\* one call of AdversarialAutoencoderDiscriminatorLoss.train_ops by the Trainer
DiscriminatorLoss_call ==
  /\ generator # None /\ discriminator # None
  /\ steps["optimizer_discriminator"] < MaxSteps
  /\ \E b \in BatchSizes :
       LET x == Images(generator, b)
           o == DiscriminatorLoss_train_ops(generator, discriminator, training,
                                            "optimizer_discriminator", x)
       IN /\ call' = Call("DiscriminatorLoss.train_ops", x, o)
          /\ Effect(o, "optimizer_discriminator")
  /\ UNCHANGED <<generator, discriminator, training>>

Next ==
  \/ Generator_init
  \/ Discriminator_init
  \/ Generator_train
  \/ Generator_forward
  \/ Generator_sample
  \/ GeneratorLoss_call
  \/ DiscriminatorLoss_call

Spec == Init /\ [][Next]_vars

(* ------------------------- helpers of the properties -------------------- *)

\* the channel (or width) counts along a chain of layers
Channels(layers) == <<layers[1].in>> \o [i \in 1..Len(layers) |-> layers[i].out]

\* every layer's input width is the previous layer's output width
Chained(layers) == \A i \in 2..Len(layers) : layers[i].in = layers[i - 1].out

\* the spatial sizes an n x n map goes through along a chain of layers
Sizes(layers, n) ==
  LET RECURSIVE Go(_, _)
      Go(ls, t) ==
        IF ls = <<>> THEN <<t.shape[3]>>
        ELSE <<t.shape[3]>> \o Go(Tail(ls), ApplyLayer(Head(ls), t))
  IN Go(layers, Tensor(<<2, layers[1].in, n, n>>, <<>>))

Configured(gen) ==
  /\ gen # None
  /\ gen.encoding_dims = network.generator.encoding_dims
  /\ gen.input_size = network.generator.input_size
  /\ gen.input_channels = network.generator.input_channels

TrainOps == {"GeneratorLoss.train_ops", "DiscriminatorLoss.train_ops"}

Returned(op) == call.op = op /\ call.o.status = "returned"

EncodingSrc == <<"encoder_fc", "encoder", "real_inputs">>

(* --------------------------------- C1 ---------------------------------- *)

\* C1: the configured generator (input_size 32, input_channels 1, d = 16,
\* encoding_dims 128) has an encoder whose spatial size goes 32 -> 16 -> 4 -> 1
\* and whose channels go input_channels -> d -> 4d -> 16d -> encoding_dims, and a
\* decoder whose spatial size goes 1 -> 4 -> 16 -> 32 and whose channels go
\* encoding_dims -> d -> 4d -> 16d -> input_channels.
C1_ConfiguredChains ==
  Configured(generator) =>
    LET d == step_channels IN
    /\ Sizes(generator.encoder, 32) = <<32, 16, 4, 1>>
    /\ Channels(generator.encoder \o <<generator.encoder_fc>>)
         = <<1, d, 4 * d, 16 * d, 128>>
    /\ Chained(generator.encoder \o <<generator.encoder_fc>>)
    /\ Sizes(generator.decoder, 1) = <<1, 4, 16, 32>>
    /\ Channels(<<generator.decoder_fc>> \o generator.decoder)
         = <<128, d, 4 * d, 16 * d, 1>>
    /\ Chained(<<generator.decoder_fc>> \o generator.decoder)

C1_Witness ==
  /\ Configured(generator)
  /\ call.op = "Generator.__init__"
  /\ Len(generator.encoder) = 3 /\ Len(generator.decoder) = 3

(* --------------------------------- C2 ---------------------------------- *)

\* C2: for every input_size that is a power of 2 and at least 16, the image
\* returned by sample, or by forward in training mode, is input_size x input_size.
C2_ReconstructionSize ==
  (/\ \/ call.op = "Generator.sample"
      \/ call.op = "Generator.forward" /\ call.o.fwd.kind = "pair"
   /\ call.o.fwd.kind # "raise")
  => /\ call.o.fwd.out.shape[3] = generator.input_size
     /\ call.o.fwd.out.shape[4] = generator.input_size

(* --------------------------------- C3 ---------------------------------- *)

\* C3: forward depends only on the training flag.  In training mode an image
\* batch x gives the pair (sample(encoding), encoding), encoding =
\* encoder_fc(flatten(encoder(x))) of shape batch x encoding_dims; in evaluation
\* mode the encoder never runs and a latent batch x gives the one tensor sample(x).
\* The two-value unpacking in both train_ops succeeds exactly in training mode.
C3_ForwardByMode ==
  LET r == call.o.fwd
      x == call.x
  IN /\ call.op = "Generator.forward" =>
          /\ training => r.kind # "tensor"
          /\ training /\ x = Images(generator, x.shape[1]) =>
                /\ r.kind = "pair"
                /\ r.encoding.shape = <<x.shape[1], generator.encoding_dims>>
                /\ r.encoding.src = EncodingSrc
                /\ r.out = sample(generator, r.encoding).t
                /\ r.ran = {"encoder", "encoder_fc", "decoder_fc", "decoder"}
          /\ ~training =>
                /\ r.kind # "pair"
                /\ r.ran \cap {"encoder", "encoder_fc"} = {}
          /\ ~training /\ x = Latents(generator, x.shape[1]) =>
                /\ r.kind = "tensor"
                /\ r.out = sample(generator, x).t
                /\ r.out.src = <<"decoder", "decoder_fc", "noise">>
     /\ call.op \in TrainOps => (call.o.unpacked <=> training)

\* a train_ops call in evaluation mode in which forward did return a tensor,
\* and the unpacking failed
C3_Witness ==
  /\ call.op \in TrainOps
  /\ ~training
  /\ call.o.fwd.kind = "tensor"
  /\ ~call.o.unpacked

(* --------------------------------- C4 ---------------------------------- *)

\* the width the last Linear layer of the discriminator reads
LastWidth(disc) == disc.model[Len(disc.model)].in

\* C4: for every input_dims >= 32 the discriminator is a chain of Linear layers
\* whose width is halved until it reaches 16, then a Linear layer from width 16
\* to one logit; the chain is consistent and, in the configured network, starts
\* at the generator's encoding_dims.
C4_HalvedTo16 ==
  discriminator # None =>
    LET m == discriminator.model
        n == Len(m)
    IN /\ m[1].in = discriminator.input_dims
       /\ \A i \in 1..(n - 1) : m[i].out = m[i].in \div 2
       /\ m[n - 1].out = 16
       /\ m[n].in = 16 /\ m[n].out = 1
       /\ Chained(m)
       /\ (discriminator.input_dims = network.discriminator.input_dims
             => m[1].in = network.generator.encoding_dims)

\* C4 as amended: the width is halved (rounding down) until it is at most 16;
\* the last Linear layer maps that width, which lies in 8..16 and is 16 exactly
\* when some input_dims \div 2^k is 16, to one logit.
C4_HalvedToAtMost16 ==
  discriminator # None =>
    LET m == discriminator.model
        n == Len(m)
        w == LastWidth(discriminator)
    IN /\ m[1].in = discriminator.input_dims
       /\ \A i \in 1..(n - 1) : m[i].out = m[i].in \div 2
       /\ \A i \in 1..(n - 2) : m[i].out > 16
       /\ m[n - 1].out = w /\ w \in 8..16
       /\ (w = 16 <=> \E k \in 1..n : discriminator.input_dims \div Pow2(k) = 16)
       /\ m[n].out = 1
       /\ Chained(m)
       /\ (discriminator.input_dims = network.discriminator.input_dims
             => m[1].in = network.generator.encoding_dims)

C4_Witness ==
  /\ discriminator # None
  /\ discriminator.input_dims = 34
  /\ LastWidth(discriminator) = 8

(* --------------------------------- C5 ---------------------------------- *)

TermsOn(input) == {i \in 1..Len(call.o.terms) : call.o.terms[i].input = input}

\* C5: in the discriminator's train_ops the discriminator output on prior noise
\* is scored against ones and its output on the encodings against zeros, with
\* equal weight; in the generator's train_ops the discriminator output on the
\* encodings is scored against ones.
C5_Targets ==
  LET t == call.o.terms
      onNoise == TermsOn(<<"discriminator", "randn">>)
      onEnc == TermsOn(<<"discriminator">> \o EncodingSrc)
  IN /\ Returned("DiscriminatorLoss.train_ops") =>
          /\ Cardinality(onNoise) = 1 /\ Cardinality(onEnc) = 1
          /\ \A i \in onNoise : t[i].target = <<"ones_like">>
          /\ \A i \in onEnc : t[i].target = <<"zeros_like">>
          /\ \A i \in onNoise : \A j \in onEnc : t[i].weight = t[j].weight
     /\ Returned("GeneratorLoss.train_ops") =>
          /\ onNoise = {} /\ Cardinality(onEnc) = 1
          /\ \A i \in onEnc : t[i].target = <<"ones_like">>

C5_Witness ==
  /\ Returned("DiscriminatorLoss.train_ops")
  /\ Len(call.o.terms) = 2

(* --------------------------------- C6 ---------------------------------- *)

TermsOf(fn) == {i \in 1..Len(call.o.terms) : call.o.terms[i].fn = fn}

RECURSIVE WeightSum(_)
WeightSum(terms) ==
  IF terms = <<>> THEN 0 ELSE Head(terms).weight + WeightSum(Tail(terms))

\* C6: each of the two losses is the weighted sum of one mean-squared-error term
\* and one binary cross-entropy term, the weights adding up to 1
\* (999/1000 + 1/1000 for the generator loss).
C6_MsePlusBce ==
  (\E op \in TrainOps : Returned(op)) =>
    /\ Cardinality(TermsOf("mse_loss")) = 1
    /\ Cardinality(TermsOf("binary_cross_entropy_with_logits")) = 1
    /\ WeightSum(call.o.terms) = 1000

\* C6 as amended: the generator loss is 999/1000 of one mean-squared-error term
\* plus 1/1000 of one binary cross-entropy term; the discriminator loss is the
\* sum of two binary cross-entropy terms weighted 1/2 each and has no
\* mean-squared-error term; in both the weights add up to 1.
C6_LossTerms ==
  LET t == call.o.terms IN
  /\ Returned("GeneratorLoss.train_ops") =>
       /\ Len(t) = 2
       /\ t[1].fn = "mse_loss" /\ t[1].weight = 999
       /\ t[2].fn = "binary_cross_entropy_with_logits" /\ t[2].weight = 1
       /\ WeightSum(t) = 1000
  /\ Returned("DiscriminatorLoss.train_ops") =>
       /\ Len(t) = 2
       /\ TermsOf("mse_loss") = {}
       /\ TermsOf("binary_cross_entropy_with_logits") = {1, 2}
       /\ t[1].weight = 500 /\ t[2].weight = 500
       /\ WeightSum(t) = 1000

C6_Witness ==
  /\ Returned("GeneratorLoss.train_ops")
  /\ Len(call.o.terms) = 2

(* --------------------------------- C7 ---------------------------------- *)

\* C7: a train_ops call calls step() once, on the optimizer passed to it and on
\* no other (a call that raises calls it on none); so the generator's weights
\* change only in the generator loss's train_ops and the discriminator's only in
\* the discriminator loss's, although every returning call leaves gradients on
\* both models.
C7_StepFrame ==
  [][LET dG == steps'["optimizer_generator"] - steps["optimizer_generator"]
         dD == steps'["optimizer_discriminator"] - steps["optimizer_discriminator"]
         one == IF call'.o.status = "returned" THEN 1 ELSE 0
     IN /\ call'.op = "GeneratorLoss.train_ops" =>
             /\ dG = one /\ dD = 0
             /\ call'.o.stepped = [i \in 1..one |-> "optimizer_generator"]
             /\ weights'["generator"] = weights["generator"] + one
             /\ weights'["discriminator"] = weights["discriminator"]
        /\ call'.op = "DiscriminatorLoss.train_ops" =>
             /\ dD = one /\ dG = 0
             /\ call'.o.stepped = [i \in 1..one |-> "optimizer_discriminator"]
             /\ weights'["discriminator"] = weights["discriminator"] + one
             /\ weights'["generator"] = weights["generator"]
        /\ call'.op \in TrainOps /\ one = 1 =>
             grads' = [m \in Models |-> TRUE]
        /\ call'.op \notin TrainOps => weights' = weights /\ steps' = steps
    ]_vars

C7_Witness ==
  /\ Returned("DiscriminatorLoss.train_ops")
  /\ weights["generator"] >= 1 /\ weights["discriminator"] >= 1
  /\ steps["optimizer_generator"] >= 1 /\ steps["optimizer_discriminator"] >= 1

====
